---- MODULE Spec2Model ----
(***************************************************************************)
(* Credential lifecycle of the kublish backend (backend/src/index.ts):     *)
(*   - routes/salesforceAuth.ts  (state-keyed sessions, module-local token  *)
(*     map, five-minute session sweep)                                      *)
(*   - routes/salesforceLive.ts  (refreshAccessToken, makeSalesforceApiCall *)
(*     over services/tokenStore.ts)                                         *)
(*   - services/tokenStore.ts    (Redis-backed get / set / clear)           *)
(* Time is Date.now() in milliseconds.                                      *)
(***************************************************************************)
EXTENDS Integers, FiniteSets, Sequences, TLC

\* ---------------------------------------------------------------- bounds
MaxStates == 2      \* number of state strings /initiate may generate
MaxPeriods == 3     \* sweep periods the clock runs through
LivePeriods == 1    \* sweep periods the clock runs through beside the API client

\* ------------------------------------------------------- program constants
TenMinutes          == 600000    \* cleanupExpiredSessions: 10 * 60 * 1000
SweepInterval       == 300000    \* setInterval(cleanupExpiredSessions, 5 * 60 * 1000)
OAUTH_EXPIRY_BUFFER == 300000    \* 5 * 60 * 1000
DefaultExpiresIn    == 3600      \* parseInt(expires_in || '3600')
RefreshWindow       == 30000     \* tokenData.expiresAt < now + 30000

\* ------------------------------------------------------------ input sets
Absent   == "absent"                 \* undefined / missing query parameter or JSON field
Users    == {"u1", "u2"}
StateIds == 1..MaxStates             \* the strings crypto.randomBytes(16) yields, in order of generation
NoState  == 0                        \* a callback without a state parameter

\* Clock advances offered to the environment (ms).
TickSteps == {1, SweepInterval}

\* expires_in values a token response may carry (seconds); 0 stands for a
\* missing field as well: both are falsy in `expires_in || '3600'`.
RefreshExpiresIn  == {0, 10}

\* The token response of the provider on a code exchange: complete with the
\* default lifetime, without a refresh token and short-lived, or lacking one of
\* the two fields the callback requires.
ExchangeResponses ==
    [kind : {"ok"}, status : {200}, access_token : {"A1"}, refresh_token : {"R1"},
     instance_url : {"I1"}, expires_in : {0}]
    \cup
    [kind : {"ok"}, status : {200}, access_token : {"A1"}, refresh_token : {Absent},
     instance_url : {"I1"}, expires_in : {300}]
    \cup
    [kind : {"ok"}, status : {200}, access_token : {Absent}, refresh_token : {"R1"},
     instance_url : {"I1"}, expires_in : {0}]
    \cup
    [kind : {"ok"}, status : {200}, access_token : {"A1"}, refresh_token : {"R1"},
     instance_url : {Absent}, expires_in : {0}]
    \cup
    \* an axios error carrying the provider's status, or none (status 0:
    \* timeout / network error, err.response undefined)
    [kind : {"error"}, status : {0, 400},
     access_token : {Absent}, refresh_token : {Absent},
     instance_url : {Absent}, expires_in : {0}]

\* The token response of the provider on grant_type=refresh_token.
\* A success carries a new access token, and either rotates the refresh token
\* and names the instance or leaves both out.
RefreshResponses ==
    [kind : {"ok"}, access_token : {"A2"}, refresh_token : {"R2"},
     instance_url : {"I2"}, expires_in : RefreshExpiresIn]
    \cup
    [kind : {"ok"}, access_token : {"A2"}, refresh_token : {Absent},
     instance_url : {Absent}, expires_in : RefreshExpiresIn]
    \cup
    [kind : {"error"}, access_token : {Absent}, refresh_token : {Absent},
     instance_url : {Absent}, expires_in : {0}]

\* Records a caller of setTokenData may hand over, by remaining lifetime (ms).
SeedLifetimes == {0, 10000, 3600000}
SeedTokens(t) ==
    [accessToken : {"A0"}, refreshToken : {Absent, "R0"}, instanceUrl : {"I0"},
     expiresAt : {t + d : d \in SeedLifetimes}]

\* Answers of the Salesforce API to a proxied request: an HTTP status, or 0
\* for none (timeout after 15 s, network error).
ApiStatuses == {200, 401, 500, 0}

\* makeSalesforceApiCall invocations followed: two requests may overlap
Calls == {1, 2}
NoUser == Absent
IdleCall ==
    [pc |-> "idle", userId |-> NoUser, tokenData |-> {}, request |-> {},
     requests |-> 0, refreshes |-> 0]


VARIABLES
    now,           \* Date.now()
    nextSweep,     \* time the setInterval timer of cleanupExpiredSessions is due
    sessionStore,  \* salesforceAuth: state -> [userId, timestamp]
    nextState,     \* number of state strings generated so far
    tokenStore,    \* salesforceAuth: module-local userId -> token record
    exchanges,     \* callbacks awaiting the token endpoint: state -> userId
    ev,            \* last answer given: an HTTP response of the salesforceAuth router
                   \* or the outcome of a makeSalesforceApiCall invocation
    issued,        \* history: state -> userId /initiate generated it for, kept while
                   \* the state is pending or its callback awaits the token endpoint
    consumed,      \* history: states a callback has accepted
    redis,         \* services/tokenStore: userId -> JSON text under kublish:token:<userId>
    redisReady,    \* redis.status === 'ready'
    calls          \* makeSalesforceApiCall invocations: position and local variables

authVars == <<sessionStore, nextState, tokenStore, exchanges, issued, consumed>>
timeVars == <<now, nextSweep>>
liveVars == <<redis, redisReady, calls>>
vars == <<now, nextSweep, sessionStore, nextState, tokenStore, exchanges,
          ev, issued, consumed, redis, redisReady, calls>>

\* ------------------------------------------------------------- helpers
Min(a, b) == IF a < b THEN a ELSE b

\* f with key k removed (delete obj[k]; a no-op when k is not a key)
Delete(f, k) == [x \in (DOMAIN f) \ {k} |-> f[x]]

\* f with key k set to v (obj[k] = v)
Put(f, k, v) == [x \in (DOMAIN f) \cup {k} |-> IF x = k THEN v ELSE f[x]]

Empty == [x \in {} |-> 0]

\* What the model keeps of an HTTP response: the route, the status code (0
\* while the handler awaits the token endpoint and has not answered), the state
\* parameter of a callback and the connected / expired fields of the /status body.
Response(op, status, state, connected, expired) ==
    [op |-> op, status |-> status, state |-> state,
     connected |-> connected, expired |-> expired]

\* How a makeSalesforceApiCall invocation ended: "ok" (the promise resolved),
\* "error" (the request was rejected, with the HTTP status or 0 for none),
\* "unauthenticated" or "refreshFailed" (thrown before any request).
Outcome(result, status) == Response(result, status, NoState, FALSE, FALSE)

\* parseInt(expires_in || '3600', 10)
ParseExpiresIn(expires_in) ==
    IF expires_in = 0 THEN DefaultExpiresIn ELSE expires_in

\* ------------------------------------------------- services/tokenStore
StringFields == {"accessToken", "refreshToken", "instanceUrl"}

\* JSON.stringify(token): a field holding undefined is left out of the text
Stringify(token) ==
    [k \in {f \in StringFields : token[f] # Absent} \cup {"expiresAt"} |-> token[k]]

\* JSON.parse(data): a field the text lacks reads as undefined
Parse(data) ==
    [accessToken  |-> IF "accessToken" \in DOMAIN data THEN data.accessToken ELSE Absent,
     refreshToken |-> IF "refreshToken" \in DOMAIN data THEN data.refreshToken ELSE Absent,
     instanceUrl  |-> IF "instanceUrl" \in DOMAIN data THEN data.instanceUrl ELSE Absent,
     expiresAt    |-> data.expiresAt]

\* Redis drops a key once the PX lifetime given at SET has passed. The
\* lifetime is token.expiresAt - Date.now(), so the key lives until expiresAt.
Unexpired(store, t) ==
    [u \in {x \in DOMAIN store : store[x].expiresAt > t} |-> store[u]]

\* getTokenData: the set holding the record, or {} for null
GetTokenData(store, ready, userId) ==
    IF ready /\ userId \in DOMAIN store THEN {Parse(store[userId])} ELSE {}

\* const ttl = token.expiresAt - Date.now()
Ttl(token, t) == token.expiresAt - t

\* redis.set(key, JSON.stringify(token), 'PX', ttl) answers
\* "ERR invalid expire time in set" for ttl <= 0 and the promise rejects
SetRejected(ready, token, t) == ready /\ Ttl(token, t) <= 0

\* setTokenData, the store after it: unchanged when Redis is not ready (the
\* token is not persisted, only a warning is logged) or when the SET fails
StoreAfterSet(store, ready, userId, token, t) ==
    IF ready /\ ~SetRejected(ready, token, t)
    THEN Put(store, userId, Stringify(token))
    ELSE store

\* clearTokenData, the store after it
StoreAfterClear(store, ready, userId) ==
    IF ready THEN Delete(store, userId) ELSE store

\* ------------------------------------------------------------------ Init
Init ==
    /\ now = 0
    /\ nextSweep = SweepInterval
    /\ sessionStore = Empty
    /\ nextState = 0
    /\ tokenStore = Empty
    /\ exchanges = Empty
    /\ ev = Response("none", 0, NoState, FALSE, FALSE)
    /\ issued = Empty
    /\ consumed = {}
    /\ redis = Empty
    /\ redisReady = TRUE
    /\ calls = [p \in Calls |-> IdleCall]

\* ---------------------------------------------------------------- clock
\* Time advances by up to d ms, never past the moment the sweep timer is due.
\* The clock is sampled on the timer's deadlines and one millisecond after the
\* deadline at which the oldest session is exactly ten minutes old.
Tick(d, periods) ==
    /\ now < periods * SweepInterval
    /\ now < nextSweep
    /\ d = 1 => now = TenMinutes
    /\ now' = Min(now + d, nextSweep)
    /\ redis' = Unexpired(redis, now')
    /\ UNCHANGED <<nextSweep, authVars, ev, redisReady, calls>>

\* ------------------------------------------------ salesforceAuth router
\* The history kept for the states still pending or in exchange.
Tracked(hist, store, inflight) ==
    [s \in {x \in DOMAIN hist : x \in DOMAIN store \/ x \in DOMAIN inflight} |-> hist[s]]

\* A sweep that also deletes the entries exactly ten minutes old.
SweptStoreAtTen(store, t) ==
    [s \in {x \in DOMAIN store : ~(t - store[x].timestamp >= TenMinutes)} |-> store[s]]

\* A sweep that deletes nothing.
SweptStoreNone(store, t) == store

\* const cleanupExpiredSessions, fired by setInterval every five minutes
SweptStore(store, t) ==
    [s \in {x \in DOMAIN store : ~(t - store[x].timestamp > TenMinutes)} |-> store[s]]

CleanupExpiredSessions ==
    /\ now >= nextSweep
    /\ sessionStore' = SweptStore(sessionStore, now)
    /\ nextSweep' = nextSweep + SweepInterval
    /\ issued' = Tracked(issued, sessionStore', exchanges)
    /\ UNCHANGED <<now, liveVars, nextState, tokenStore, exchanges, ev, consumed>>

\* A store with one pending authorization per user: the new entry replaces
\* the entries the user already has.
StoreSessionPerUser(store, state, userId, t) ==
    Put([s \in {x \in DOMAIN store : store[x].userId # userId} |-> store[s]],
        state, [userId |-> userId, timestamp |-> t])

\* sessionStore[state] = { userId, timestamp: Date.now() }
StoreSession(store, state, userId, t) ==
    Put(store, state, [userId |-> userId, timestamp |-> t])

\* router.get('/initiate')
Initiate(userId) ==
    IF userId = Absent
    THEN /\ ev' = Response("initiate", 400, NoState, FALSE, FALSE)
         /\ UNCHANGED <<timeVars, liveVars, sessionStore, nextState, tokenStore, exchanges,
                        issued, consumed>>
    ELSE /\ nextState < MaxStates
         /\ LET state == nextState + 1 IN
            /\ nextState' = state
            /\ sessionStore' = StoreSession(sessionStore, state, userId, now)
            /\ issued' = Put(issued, state, userId)
            /\ ev' = Response("initiate", 302, NoState, FALSE, FALSE)
         /\ UNCHANGED <<timeVars, liveVars, tokenStore, exchanges, consumed>>

\* const session = sessionStore[state]; if (!session) return 400
SessionFound(store, state) == state \in DOMAIN store

\* A callback that binds every record to one fixed user.
SessionUserDefault(store, state) == "u1"

\* const { userId } = session
SessionUser(store, state) == store[state].userId

\* A callback that leaves the entry in the store.
ConsumeSessionKept(store, state) == store

\* delete sessionStore[state]
ConsumeSession(store, state) == Delete(store, state)

\* A callback that does not look at the error parameter.
RequestRefusedNoError(code, state, error) == code = Absent \/ state = NoState

\* if (error) return 400; if (!code || !state) return 400
RequestRefused(code, state, error) ==
    error # Absent \/ code = Absent \/ state = NoState

\* router.get('/callback'), up to the await of the token request
Callback(code, state, error) ==
    IF RequestRefused(code, state, error) \/ ~SessionFound(sessionStore, state)
    THEN /\ ev' = Response("callback", 400, state, FALSE, FALSE)
         /\ UNCHANGED <<timeVars, liveVars, sessionStore, nextState, tokenStore, exchanges,
                        issued, consumed>>
    ELSE /\ exchanges' = Put(exchanges, state, SessionUser(sessionStore, state))
         /\ sessionStore' = ConsumeSession(sessionStore, state)
         /\ consumed' = consumed \cup {state}
         /\ ev' = Response("callback", 0, state, FALSE, FALSE)
         /\ UNCHANGED <<timeVars, liveVars, nextState, tokenStore, issued>>

\* const expiresAt = Date.now() + parseInt(expires_in || '3600', 10) * 1000 - OAUTH_EXPIRY_BUFFER
CallbackExpiresAt(t, expires_in) ==
    t + ParseExpiresIn(expires_in) * 1000 - OAUTH_EXPIRY_BUFFER

\* tokenStore[userId] = { accessToken, refreshToken, instanceUrl, expiresAt }
ExchangedRecord(t, resp) ==
    [accessToken  |-> resp.access_token,
     refreshToken |-> resp.refresh_token,
     instanceUrl  |-> resp.instance_url,
     expiresAt    |-> CallbackExpiresAt(t, resp.expires_in)]

\* res.status(status || 500) in the catch block of the callback
ExchangeFailureStatus(resp) ==
    IF resp.kind = "error" /\ resp.status # 0 THEN resp.status ELSE 500

\* A callback that stores whatever a 200 answer carries.
AnyTokenResponse(resp) == resp.kind = "ok"

\* The request resolved and passed
\* if (!access_token || !instance_url) throw new Error('Invalid token response')
ValidTokenResponse(resp) ==
    resp.kind = "ok" /\ resp.access_token # Absent /\ resp.instance_url # Absent

\* router.get('/callback'), from the answer of the token endpoint on
ExchangeFinish(state, resp) ==
    /\ state \in DOMAIN exchanges
    /\ LET userId == exchanges[state] IN
       IF ValidTokenResponse(resp)
       THEN /\ tokenStore' = Put(tokenStore, userId, ExchangedRecord(now, resp))
            /\ ev' = Response("exchange", 200, NoState, FALSE, FALSE)
       ELSE /\ tokenStore' = tokenStore
            /\ ev' = Response("exchange", ExchangeFailureStatus(resp), NoState, FALSE, FALSE)
    /\ exchanges' = Delete(exchanges, state)
    /\ issued' = Tracked(issued, sessionStore, exchanges')
    /\ UNCHANGED <<timeVars, liveVars, sessionStore, nextState, consumed>>

\* const isExpired = Date.now() > tokens.expiresAt
IsExpired(t, tokens) == t > tokens.expiresAt

\* router.get('/status')
Status(userId) ==
    /\ ev' = IF userId = Absent
             THEN Response("status", 400, NoState, FALSE, FALSE)
             ELSE IF userId \notin DOMAIN tokenStore
             THEN Response("status", 200, NoState, FALSE, FALSE)
             ELSE Response("status", 200, NoState,
                           ~IsExpired(now, tokenStore[userId]),
                           IsExpired(now, tokenStore[userId]))
    /\ UNCHANGED <<timeVars, liveVars, sessionStore, nextState, tokenStore, exchanges, issued, consumed>>

\* A disconnect that leaves the pending authorizations where they are.
SessionsKept(store, userId) == store

\* Object.keys(sessionStore).forEach(state => { if (...userId === userId) delete ... })
SessionsWithout(store, userId) ==
    [s \in {x \in DOMAIN store : store[x].userId # userId} |-> store[s]]

\* router.post('/disconnect')
Disconnect(userId) ==
    IF userId = Absent
    THEN /\ ev' = Response("disconnect", 400, NoState, FALSE, FALSE)
         /\ UNCHANGED <<timeVars, liveVars, sessionStore, nextState, tokenStore, exchanges,
                        issued, consumed>>
    ELSE /\ tokenStore' = Delete(tokenStore, userId)
         /\ sessionStore' = SessionsWithout(sessionStore, userId)
         /\ issued' = Tracked(issued, sessionStore', exchanges)
         /\ ev' = Response("disconnect", 200, NoState, FALSE, FALSE)
         /\ UNCHANGED <<timeVars, liveVars, nextState, exchanges, consumed>>

\* ------------------------------------------------- services/tokenStore
\* setTokenData called by a user of the service module
SetTokenData(userId, token) ==
    /\ redis' = StoreAfterSet(redis, redisReady, userId, token, now)
    /\ UNCHANGED <<timeVars, authVars, ev, redisReady, calls>>

\* clearTokenData called by a user of the service module
ClearTokenData(userId) ==
    /\ redis' = StoreAfterClear(redis, redisReady, userId)
    /\ UNCHANGED <<timeVars, authVars, ev, redisReady, calls>>

\* The connection to Redis is lost or comes back (redis.status).
RedisStatusChange ==
    /\ redisReady' = ~redisReady
    /\ UNCHANGED <<timeVars, authVars, ev, redis, calls>>

\* ------------------------------------------------ salesforceLive router
\* A check that waits until the token has expired.
NeedsRefreshWhenExpired(tokenData, t) == tokenData.expiresAt < t

\* if (tokenData.expiresAt < now + 30000)
NeedsRefresh(tokenData, t) == tokenData.expiresAt < t + RefreshWindow

\* The outbound request: url = instanceUrl + endpoint, Authorization: Bearer accessToken
ApiRequest(tokenData) ==
    [instanceUrl |-> tokenData.instanceUrl, bearer |-> tokenData.accessToken]

\* makeSalesforceApiCall, from its start to its first await after getTokenData
CallStart(p, userId) ==
    /\ calls[p].pc = "idle"
    /\ LET got == GetTokenData(redis, redisReady, userId) IN
       IF got = {}
       THEN /\ ev' = Outcome("unauthenticated", 0)
            /\ calls' = calls
       ELSE LET tokenData == CHOOSE r \in got : TRUE IN
            /\ ev' = ev
            /\ calls' = [calls EXCEPT ![p] =
                 IF NeedsRefresh(tokenData, now)
                 THEN [IdleCall EXCEPT !.pc = "refreshGet", !.userId = userId]
                 ELSE [IdleCall EXCEPT !.pc = "api", !.userId = userId,
                                       !.tokenData = got,
                                       !.request = {ApiRequest(tokenData)},
                                       !.requests = 1]]
    /\ UNCHANGED <<timeVars, authVars, redis, redisReady>>

\* A refresher that only wants a record.
HasRecord(got) == got # {}

\* if (!tokenData?.refreshToken) return null
HasRefreshToken(got) == \E r \in got : r.refreshToken # Absent

\* refreshAccessToken, up to the await of the token request
RefreshGet(p) ==
    /\ calls[p].pc = "refreshGet"
    /\ LET got == GetTokenData(redis, redisReady, calls[p].userId) IN
       IF HasRefreshToken(got)
       THEN /\ calls' = [calls EXCEPT ![p] =
                 [@ EXCEPT !.pc = "refreshPost", !.tokenData = got, !.refreshes = 1]]
            /\ ev' = ev
       ELSE /\ calls' = [calls EXCEPT ![p] = IdleCall]
            /\ ev' = Outcome("refreshFailed", 0)
    /\ UNCHANGED <<timeVars, authVars, redis, redisReady>>

\* const expiresAt = Date.now() + (parseInt(expires_in || '3600') * 1000)
RefreshExpiresAt(t, expires_in) == t + ParseExpiresIn(expires_in) * 1000

\* A refresh that takes the refresh token from the response alone.
UpdatedTokenFromResponse(tokenData, resp, t) ==
    [accessToken  |-> resp.access_token,
     refreshToken |-> resp.refresh_token,
     instanceUrl  |-> IF resp.instance_url # Absent THEN resp.instance_url
                      ELSE tokenData.instanceUrl,
     expiresAt    |-> t + ParseExpiresIn(resp.expires_in) * 1000]

\* const updatedToken = { accessToken, refreshToken: refresh_token || old, ... }
UpdatedToken(tokenData, resp, t) ==
    [accessToken  |-> resp.access_token,
     refreshToken |-> IF resp.refresh_token # Absent THEN resp.refresh_token
                      ELSE tokenData.refreshToken,
     instanceUrl  |-> IF resp.instance_url # Absent THEN resp.instance_url
                      ELSE tokenData.instanceUrl,
     expiresAt    |-> RefreshExpiresAt(t, resp.expires_in)]

\* A refresher that posts to the token endpoint again after a failure.
AfterFailedRefreshRetry(call) == [call EXCEPT !.refreshes = 2]

\* A client that sends its request with the record it read before the refresh
\* when the refresh has failed.
AfterFailedRefreshStale(call) ==
    [call EXCEPT !.pc = "api",
                 !.request = {ApiRequest(CHOOSE r \in call.tokenData : TRUE)},
                 !.requests = 1]

\* catch (err) { return null } in refreshAccessToken, then
\* if (!tokenData) throw new Error('Unable to refresh token.'): the invocation ends
AfterFailedRefresh(call) == IdleCall

\* refreshAccessToken from the answer of the token endpoint on, and the
\* request makeSalesforceApiCall sends with the token it returns
RefreshFinish(p, resp) ==
    /\ calls[p].pc = "refreshPost"
    /\ LET tokenData == CHOOSE r \in calls[p].tokenData : TRUE
           updated == UpdatedToken(tokenData, resp, now)
       IN IF resp.kind = "ok" /\ ~SetRejected(redisReady, updated, now)
          THEN /\ redis' = StoreAfterSet(redis, redisReady, calls[p].userId, updated, now)
               /\ calls' = [calls EXCEPT ![p] =
                    [@ EXCEPT !.pc = "api", !.tokenData = {updated},
                              !.request = {ApiRequest(updated)}, !.requests = 1]]
               /\ ev' = ev
          ELSE /\ redis' = redis
               /\ calls' = [calls EXCEPT ![p] = AfterFailedRefresh(@)]
               /\ ev' = Outcome("refreshFailed", 0)
    /\ UNCHANGED <<timeVars, authVars, redisReady>>

\* A client that resolves whatever the API answered.
ApiResultSwallowed(status) == "ok"

\* return axios({...}): the promise resolves on 2xx and rejects otherwise
ApiResult(status) == IF status = 200 THEN "ok" ELSE "error"

\* A client that keeps reissuing the request while the answer is 401.
AfterApiAnswerRetry(call, status) ==
    IF status = 401 THEN [call EXCEPT !.requests = 3] ELSE IdleCall

\* return axios({...}): the answer to the request ends the invocation
AfterApiAnswer(call, status) == IdleCall

\* makeSalesforceApiCall, the answer to its request
ApiResponse(p, status) ==
    /\ calls[p].pc = "api"
    /\ calls' = [calls EXCEPT ![p] = AfterApiAnswer(@, status)]
    /\ ev' = Outcome(ApiResult(status), status)
    /\ UNCHANGED <<timeVars, authVars, redis, redisReady>>

\* The API client with one invocation at a time, beside the users of the
\* token store and the clock.
LiveNext ==
    \/ \E userId \in Users, token \in SeedTokens(now) : SetTokenData(userId, token)
    \/ \E userId \in Users : ClearTokenData(userId)
    \/ RedisStatusChange
    \/ \E userId \in Users : CallStart(1, userId)
    \/ RefreshGet(1)
    \/ \E resp \in RefreshResponses : RefreshFinish(1, resp)
    \/ \E status \in ApiStatuses : ApiResponse(1, status)
    \/ CleanupExpiredSessions
    \/ \E d \in TickSteps : Tick(d, LivePeriods)

SpecLive == Init /\ [][LiveNext]_vars

\* ------------------------------------------------------- specification
AuthNext ==
    \/ \E userId \in Users \cup {Absent} : Initiate(userId)
    \/ \E code \in {Absent, "abc"}, state \in StateIds \cup {NoState},
          error \in {Absent, "access_denied"} : Callback(code, state, error)
    \/ \E state \in StateIds, resp \in ExchangeResponses : ExchangeFinish(state, resp)
    \/ \E userId \in Users \cup {Absent} : Status(userId)
    \/ \E userId \in Users \cup {Absent} : Disconnect(userId)
    \/ CleanupExpiredSessions
    \/ \E d \in TickSteps : Tick(d, MaxPeriods)

SpecAuth == Init /\ [][AuthNext]_vars

\* The backend as backend/src/index.ts mounts it: both routers and the token
\* store service in one process, at one instant of the clock, with complete
\* provider answers.
CompleteExchangeResponses ==
    {r \in ExchangeResponses :
        r.kind = "ok" => r.access_token # Absent /\ r.refresh_token # Absent
                         /\ r.instance_url # Absent}
CompleteSeedTokens(t) == {k \in SeedTokens(t) : k.refreshToken # Absent}

Next ==
    \/ \E userId \in Users : Initiate(userId)
    \/ \E state \in StateIds : Callback("abc", state, Absent)
    \/ \E state \in StateIds, resp \in CompleteExchangeResponses : ExchangeFinish(state, resp)
    \/ \E userId \in Users : Status(userId)
    \/ \E userId \in Users : Disconnect(userId)
    \/ \E userId \in Users, token \in CompleteSeedTokens(now) : SetTokenData(userId, token)
    \/ \E userId \in Users : CallStart(1, userId)
    \/ RefreshGet(1)
    \/ \E resp \in RefreshResponses : RefreshFinish(1, resp)
    \/ \E status \in ApiStatuses : ApiResponse(1, status)

Spec == Init /\ [][Next]_vars

\* The salesforceAuth router with its sweep timer and a clock that keep going:
\* setInterval fires cleanupExpiredSessions at every deadline and time passes.
SweepNext ==
    \/ \E userId \in Users : Initiate(userId)
    \/ \E state \in StateIds : Callback("abc", state, Absent)
    \/ \E state \in StateIds, resp \in CompleteExchangeResponses : ExchangeFinish(state, resp)
    \/ \E userId \in Users : Disconnect(userId)
    \/ CleanupExpiredSessions
    \/ \E d \in TickSteps : Tick(d, MaxPeriods)

SpecSweep ==
    /\ Init
    /\ [][SweepNext]_vars
    /\ WF_vars(CleanupExpiredSessions)
    /\ WF_vars(\E d \in TickSteps : Tick(d, MaxPeriods))

\* The user followed where one user is enough.
OneUser == "u1"

\* Two overlapping requests of one user to the salesforceLive router, over a
\* record the token store holds, at one instant of the clock.
RaceNext ==
    \/ \E token \in CompleteSeedTokens(now) : SetTokenData(OneUser, token)
    \/ \E p \in Calls : CallStart(p, OneUser)
    \/ \E p \in Calls : RefreshGet(p)
    \/ \E p \in Calls, resp \in RefreshResponses : RefreshFinish(p, resp)
    \/ \E p \in Calls, status \in ApiStatuses : ApiResponse(p, status)

SpecRace == Init /\ [][RaceNext]_vars

\* Overlapping requests whose awaited calls all come back: getTokenData
\* answers, and the token request (timeout: 10000) and the API request
\* (timeout: 15000) end with an answer or with the timeout error.
SpecCalls ==
    /\ Init
    /\ [][RaceNext]_vars
    /\ \A p \in Calls :
          /\ WF_vars(RefreshGet(p))
          /\ WF_vars(\E resp \in RefreshResponses : RefreshFinish(p, resp))
          /\ WF_vars(\E status \in ApiStatuses : ApiResponse(p, status))

\* Both routers and the token store serving the requests of one user, at one
\* instant of the clock, with every answer the provider may give.
UserNext ==
    \/ Initiate(OneUser)
    \/ \E state \in StateIds : Callback("abc", state, Absent)
    \/ \E state \in StateIds, resp \in ExchangeResponses : ExchangeFinish(state, resp)
    \/ Status(OneUser)
    \/ Disconnect(OneUser)
    \/ \E token \in SeedTokens(now) : SetTokenData(OneUser, token)
    \/ ClearTokenData(OneUser)
    \/ RedisStatusChange
    \/ CallStart(1, OneUser)
    \/ RefreshGet(1)
    \/ \E resp \in RefreshResponses : RefreshFinish(1, resp)
    \/ \E status \in ApiStatuses : ApiResponse(1, status)

SpecUser == Init /\ [][UserNext]_vars

\* The callback route under every shape of request, beside initiate, the
\* exchange and disconnect, at one instant of the clock.
RefuseNext ==
    \/ \E userId \in Users : Initiate(userId)
    \/ \E code \in {Absent, "abc"}, state \in StateIds \cup {NoState},
          error \in {Absent, "access_denied"} : Callback(code, state, error)
    \/ \E state \in StateIds, resp \in CompleteExchangeResponses : ExchangeFinish(state, resp)
    \/ \E userId \in Users : Disconnect(userId)

SpecRefuse == Init /\ [][RefuseNext]_vars

\* POST /disconnect arriving while a refresh of that user awaits the token
\* endpoint.
DisconnectInFlight(userId) ==
    /\ calls[1].pc = "refreshPost"
    /\ calls[1].userId = userId
    /\ Disconnect(userId)

\* One user's API requests with disconnects arriving during a refresh; the
\* record in Redis may be cleared at any time.
RevokeNext ==
    \/ \E token \in CompleteSeedTokens(now) : SetTokenData(OneUser, token)
    \/ ClearTokenData(OneUser)
    \/ CallStart(1, OneUser)
    \/ RefreshGet(1)
    \/ DisconnectInFlight(OneUser)
    \/ \E resp \in RefreshResponses : RefreshFinish(1, resp)
    \/ \E status \in ApiStatuses : ApiResponse(1, status)

SpecRevoke == Init /\ [][RevokeNext]_vars

\* One user's requests to both routers with a provider that may stay silent.
\* The token request of the refresh (timeout: 10000) and the API request
\* (timeout: 15000) end by themselves; the token request of the callback is
\* posted without a timeout and ends only when the provider answers or the
\* connection fails.
ProviderNext ==
    \/ Initiate(OneUser)
    \/ \E state \in StateIds : Callback("abc", state, Absent)
    \/ \E state \in StateIds, resp \in ExchangeResponses : ExchangeFinish(state, resp)
    \/ \E token \in CompleteSeedTokens(now) : SetTokenData(OneUser, token)
    \/ CallStart(1, OneUser)
    \/ RefreshGet(1)
    \/ \E resp \in RefreshResponses : RefreshFinish(1, resp)
    \/ \E status \in ApiStatuses : ApiResponse(1, status)

SpecProvider ==
    /\ Init
    /\ [][ProviderNext]_vars
    /\ WF_vars(RefreshGet(1))
    /\ WF_vars(\E resp \in RefreshResponses : RefreshFinish(1, resp))
    /\ WF_vars(\E status \in ApiStatuses : ApiResponse(1, status))

\* =====================================================================
\* Properties of the salesforceAuth router (SpecSweep, SpecAuth)
\* =====================================================================

\* A well-formed callback request carrying state s.
CallbackWith(s) == Callback("abc", s, Absent)

\* The pending authorization of s is in the store and not older than ten minutes.
SessionLive(s) ==
    /\ s \in DOMAIN sessionStore
    /\ now - sessionStore[s].timestamp <= TenMinutes

\* The callback passed the state check: s went from the session store to the
\* exchange with the token endpoint.
Accepted(s) ==
    /\ ev' = Response("callback", 0, s, FALSE, FALSE)
    /\ s \in DOMAIN exchanges'
    /\ s \notin DOMAIN sessionStore'

\* The callback was answered 400 and touched neither store nor any exchange.
Rejected(s) ==
    /\ ev' = Response("callback", 400, s, FALSE, FALSE)
    /\ UNCHANGED <<sessionStore, tokenStore, exchanges, consumed, redis>>

\* C1: a callback with a live state passes the state check, and every
\* callback with a state that an earlier callback has consumed is answered
\* 400, whatever initiate, sweep, disconnect and other callbacks did in
\* between.
C1_SingleConsumption ==
    [][\A s \in StateIds :
         CallbackWith(s) =>
           /\ SessionLive(s) => Accepted(s)
           /\ s \in consumed => Rejected(s)]_vars

\* C1 witness: a consumed state was presented again and answered 400.
C1_Witness ==
    \E s \in consumed : ev = Response("callback", 400, s, FALSE, FALSE)

\* C2: /initiate adds one new entry for its user and neither removes nor
\* alters any entry already pending; a callback on a pending entry is accepted
\* and leaves every other pending entry, of the same user or not, as it was.
C2_IndependentFlows ==
    [][/\ \A u \in Users :
            Initiate(u) =>
              /\ \A s \in DOMAIN sessionStore :
                    s \in DOMAIN sessionStore' /\ sessionStore'[s] = sessionStore[s]
              /\ \E s \in (DOMAIN sessionStore') \ (DOMAIN sessionStore) :
                    /\ sessionStore'[s].userId = u
                    /\ (DOMAIN sessionStore') = (DOMAIN sessionStore) \cup {s}
       /\ \A s \in StateIds :
            (CallbackWith(s) /\ s \in DOMAIN sessionStore) =>
              /\ Accepted(s)
              /\ \A o \in (DOMAIN sessionStore) \ {s} :
                    o \in DOMAIN sessionStore' /\ sessionStore'[o] = sessionStore[o]]_vars

\* C2 witness: two states of one user were both pending and both callbacks
\* were accepted; their exchanges are in flight side by side.
C2_Witness ==
    \E s1, s2 \in DOMAIN exchanges :
        s1 # s2 /\ exchanges[s1] = exchanges[s2] /\ {s1, s2} \subseteq consumed

\* C3 as claimed: a callback whose pending authorization is older than ten
\* minutes is answered 400, starts no exchange and writes no token record,
\* also when no sweep has run since the entry passed that age.
C3_ExpiredStateRejected ==
    [][\A s \in StateIds :
         (CallbackWith(s) /\ s \in DOMAIN sessionStore
            /\ now - sessionStore[s].timestamp > TenMinutes) => Rejected(s)]_vars

\* A successful answer of the token endpoint, as the callback requires it.
ExchangeSucceeds(resp) ==
    resp.kind = "ok" /\ resp.access_token # Absent /\ resp.instance_url # Absent

\* C4: when the exchange of a callback that was accepted with state s
\* succeeds, the record is stored under the user /initiate generated s for,
\* with the access token, refresh token and instance URL of the answer; no
\* other user's record changes.
C4_RecordUnderBoundUser ==
    [][\A s \in DOMAIN exchanges, resp \in ExchangeResponses :
         (ExchangeSucceeds(resp) /\ ExchangeFinish(s, resp)) =>
           /\ s \in DOMAIN issued
           /\ issued[s] \in DOMAIN tokenStore'
           /\ tokenStore'[issued[s]].accessToken = resp.access_token
           /\ tokenStore'[issued[s]].refreshToken = resp.refresh_token
           /\ tokenStore'[issued[s]].instanceUrl = resp.instance_url
           /\ \A o \in Users \ {issued[s]} :
                 /\ o \in DOMAIN tokenStore' <=> o \in DOMAIN tokenStore
                 /\ o \in DOMAIN tokenStore => tokenStore'[o] = tokenStore[o]
           /\ ev' = Response("exchange", 200, NoState, FALSE, FALSE)]_vars

\* C4 witness: the callback of "u2" has just been answered 200 and the
\* record of "u2" holds the tokens of the answer, while "u1" has none.
C4_Witness ==
    /\ ev = Response("exchange", 200, NoState, FALSE, FALSE)
    /\ "u2" \in DOMAIN tokenStore
    /\ tokenStore["u2"].accessToken = "A1"
    /\ tokenStore["u2"].refreshToken = "R1"
    /\ tokenStore["u2"].instanceUrl = "I1"
    /\ "u1" \notin DOMAIN tokenStore

\* =====================================================================
\* Properties of the salesforceLive router (SpecLive)
\* =====================================================================

\* The record refreshAccessToken read when it started.
ReadRecord == CHOOSE r \in calls[1].tokenData : TRUE

\* refreshAccessToken returned a token: the invocation went on to its request.
RefreshReturned == calls'[1].pc = "api"

\* The record the token store holds for userId after the step.
StoredAfter(userId) == Parse(redis'[userId])

\* C6: a successful refresh whose answer omits refresh_token returns, and
\* stores, a record carrying the refresh token of the record read at the start
\* of that refresh; an answer that carries one puts that one in its place. So
\* through consecutive refreshes the stored refresh token stays the last one
\* the provider issued.
C6_RefreshTokenPreserved ==
    [][\A resp \in RefreshResponses :
         (RefreshFinish(1, resp) /\ RefreshReturned) =>
           LET kept == IF resp.refresh_token = Absent
                       THEN ReadRecord.refreshToken ELSE resp.refresh_token
               userId == calls[1].userId
           IN /\ \A r \in calls'[1].tokenData : r.refreshToken = kept
              /\ calls'[1].tokenData # {}
              /\ kept # Absent
              /\ redisReady => /\ userId \in DOMAIN redis'
                               /\ StoredAfter(userId).refreshToken = kept]_vars

\* C6 witness: a refresh whose answer omitted refresh_token has returned; the
\* returned and the stored record carry the new access token "A2" and the
\* refresh token "R0" of the record read.
C6_Witness ==
    /\ calls[1].pc = "api"
    /\ calls[1].refreshes = 1
    /\ \E r \in calls[1].tokenData : r.accessToken = "A2" /\ r.refreshToken = "R0"
    /\ calls[1].userId \in DOMAIN redis
    /\ Parse(redis[calls[1].userId]).accessToken = "A2"
    /\ Parse(redis[calls[1].userId]).refreshToken = "R0"

\* C7: makeSalesforceApiCall finding a record whose expiresAt is below
\* now + 30 s sends no request before the refresh: it first refreshes, and the
\* request it sends afterwards carries the access token and the instance URL of
\* the refreshed record.
C7_ProactiveRefresh ==
    [][/\ \A u \in Users :
            (CallStart(1, u) /\ GetTokenData(redis, redisReady, u) # {}
               /\ \A r \in GetTokenData(redis, redisReady, u) :
                     r.expiresAt < now + RefreshWindow) =>
              /\ calls'[1].pc = "refreshGet"
              /\ calls'[1].request = {} /\ calls'[1].requests = 0
       /\ RefreshGet(1) => calls'[1].request = {} /\ calls'[1].requests = 0
       /\ \A resp \in RefreshResponses :
            RefreshFinish(1, resp) =>
              IF RefreshReturned
              THEN /\ calls'[1].requests = 1
                   /\ calls'[1].request =
                        {[instanceUrl |-> IF resp.instance_url # Absent
                                          THEN resp.instance_url
                                          ELSE ReadRecord.instanceUrl,
                          bearer |-> resp.access_token]}
                   /\ \A r \in calls'[1].tokenData : calls'[1].request = {ApiRequest(r)}
                   /\ redisReady => calls'[1].tokenData = {StoredAfter(calls[1].userId)}
              ELSE calls'[1].request = {} /\ calls'[1].requests = 0]_vars

\* C7 witness: an invocation that found a record about to expire has
\* refreshed it and sent its one request with the new access token "A2".
C7_Witness ==
    /\ calls[1].pc = "api"
    /\ calls[1].refreshes = 1
    /\ calls[1].requests = 1
    /\ \E q \in calls[1].request : q.bearer = "A2" /\ q.instanceUrl = "I2"

\* C8 as claimed: when the first request of an invocation is answered 401 the
\* invocation does not end there; it goes on to a refresh and a second request.
C8_RetryOnceOn401 ==
    [][(ApiResponse(1, 401) /\ calls[1].requests = 1) => calls'[1].pc # "idle"]_vars

\* =====================================================================
\* Properties of the two routers together (Spec)
\* =====================================================================

\* C5 as claimed: every record written, by the callback and by the refresh,
\* has expiresAt = time of the write + expires_in * 1000 - five minutes.
C5_BufferInEveryWrite ==
    [][/\ \A s \in DOMAIN exchanges, resp \in ExchangeResponses :
            (ExchangeSucceeds(resp) /\ ExchangeFinish(s, resp)) =>
              tokenStore'[exchanges[s]].expiresAt =
                 now + ParseExpiresIn(resp.expires_in) * 1000 - OAUTH_EXPIRY_BUFFER
       /\ \A resp \in RefreshResponses :
            (RefreshFinish(1, resp) /\ RefreshReturned /\ redisReady) =>
              StoredAfter(calls[1].userId).expiresAt =
                 now + ParseExpiresIn(resp.expires_in) * 1000 - OAUTH_EXPIRY_BUFFER]_vars

\* C9 as claimed: once /disconnect has answered for a user, getTokenData
\* returns null for that user.
C9_NoRecordAfterDisconnect ==
    [][\A u \in Users :
         Disconnect(u) => GetTokenData(redis', redisReady', u) = {}]_vars

\* C10 as claimed: while the record a successful callback wrote for a user is
\* in place (no disconnect since), makeSalesforceApiCall for that user does not
\* fail as unauthenticated.
C10_OneTokenStore ==
    [][\A u \in Users :
         (CallStart(1, u) /\ u \in DOMAIN tokenStore) =>
            ev' # Outcome("unauthenticated", 0)]_vars

\* =====================================================================
\* Properties of both routers serving one user (SpecUser)
\* =====================================================================

\* C11: a code exchange that fails (provider error, no answer, or an answer
\* lacking access_token or instance_url) and a refresh that fails both leave
\* the record stored for the user, in either store, as it was.
C11_FailureKeepsRecord ==
    [][/\ \A s \in DOMAIN exchanges, resp \in ExchangeResponses :
            (~ExchangeSucceeds(resp) /\ ExchangeFinish(s, resp)) =>
               /\ tokenStore' = tokenStore
               /\ redis' = redis
               /\ ev'.op = "exchange" /\ ev'.status # 200
       /\ \A resp \in RefreshResponses :
            (RefreshFinish(1, resp) /\ ~RefreshReturned) =>
               /\ redis' = redis
               /\ tokenStore' = tokenStore
               /\ ev' = Outcome("refreshFailed", 0)
       /\ (RefreshGet(1) /\ calls'[1].pc = "idle") =>
               redis' = redis /\ tokenStore' = tokenStore]_vars

\* C11 witness: a second code exchange of a user has just failed with the
\* provider's 400 and the record of the first one is still stored.
C11_Witness ==
    /\ ev = Response("exchange", 400, NoState, FALSE, FALSE)
    /\ OneUser \in DOMAIN tokenStore
    /\ tokenStore[OneUser].accessToken = "A1"
    /\ tokenStore[OneUser].instanceUrl = "I1"

\* =====================================================================
\* Properties of the token store under the API client (SpecLive)
\* =====================================================================

\* C12 as claimed: once refreshAccessToken has returned a record, setTokenData
\* having returned without error, the token store holds that record for the
\* user and getTokenData returns it.
C12_SetThenGet ==
    [][\A resp \in RefreshResponses :
         (RefreshFinish(1, resp) /\ RefreshReturned) =>
            /\ calls[1].userId \in DOMAIN redis'
            /\ StoredAfter(calls[1].userId) \in calls'[1].tokenData]_vars

\* =====================================================================
\* Further properties of the salesforceAuth router (SpecAuth)
\* =====================================================================

\* C13 as claimed: every record the code exchange stores has an expiresAt
\* greater than the time of the write, whatever expires_in the provider reports.
C13_NeverStoredExpired ==
    [][\A s \in DOMAIN exchanges, resp \in ExchangeResponses :
         (ExchangeSucceeds(resp) /\ ExchangeFinish(s, resp)) =>
            tokenStore'[exchanges[s]].expiresAt > now]_vars

\* =====================================================================
\* Properties of overlapping requests (SpecRace)
\* =====================================================================

\* The invocations whose refresh request for userId is in flight.
RefreshesInFlight(userId) ==
    {p \in Calls : calls[p].pc = "refreshPost" /\ calls[p].userId = userId}

\* C14 as claimed: at any time at most one refresh request to the provider is
\* in flight for a user.
C14_SingleFlightRefresh ==
    \A u \in Users : Cardinality(RefreshesInFlight(u)) <= 1

\* =====================================================================
\* Further properties of the salesforceLive router (SpecLive)
\* =====================================================================

\* C15: an answer to the request other than 2xx and 401, or no answer at all,
\* ends the invocation with that error and its status: the invocation sent one
\* request, starts no refresh, sends no second request and leaves the store alone.
C15_ErrorsSurfaced ==
    [][\A status \in ApiStatuses \ {200, 401} :
         ApiResponse(1, status) =>
            /\ ev' = Outcome("error", status)
            /\ calls[1].requests = 1
            /\ calls'[1] = IdleCall
            /\ redis' = redis]_vars

\* C15 witness: the API answered 500 to the one request of an invocation and
\* the invocation has ended with that error.
C15_Witness ==
    /\ ev = Outcome("error", 500)
    /\ calls[1].pc = "idle"
    /\ calls[1].requests = 0

\* The record refreshAccessToken is about to read.
RecordToRefresh == GetTokenData(redis, redisReady, calls[1].userId)

\* C16: refreshAccessToken finding no record for the user, or a record
\* without a refresh token, fails at once: it sends no request to the token
\* endpoint and leaves the store as it was.
C16_NoRefreshToken ==
    [][(RefreshGet(1) /\ \A r \in RecordToRefresh : r.refreshToken = Absent) =>
          /\ calls'[1].pc = "idle"
          /\ calls'[1].refreshes = 0
          /\ ev' = Outcome("refreshFailed", 0)
          /\ redis' = redis]_vars

\* C16 witness: a refresh has just failed while the record stored for a user
\* carries no refresh token.
C16_Witness ==
    /\ ev = Outcome("refreshFailed", 0)
    /\ calls[1].pc = "idle"
    /\ \E u \in DOMAIN redis : Parse(redis[u]).refreshToken = Absent

\* C17 as claimed: a callback whose code exchange fails is answered 502,
\* whatever status the provider returned.
C17_ExchangeFailureIs502 ==
    [][\A s \in DOMAIN exchanges, resp \in ExchangeResponses :
         (~ExchangeSucceeds(resp) /\ ExchangeFinish(s, resp)) =>
            ev' = Response("exchange", 502, NoState, FALSE, FALSE)]_vars

\* =====================================================================
\* Further properties of both routers serving one user (SpecUser)
\* =====================================================================

\* C18 as claimed: once a refresh has written the user's record, /status
\* answers connected exactly when that record is not expired, and expired as
\* the negation of connected.
C18_StatusOfCurrentRecord ==
    [][(Status(OneUser) /\ redisReady /\ OneUser \in DOMAIN redis
          /\ Parse(redis[OneUser]).accessToken = "A2") =>
            ev' = Response("status", 200, NoState,
                           ~IsExpired(now, Parse(redis[OneUser])),
                           IsExpired(now, Parse(redis[OneUser])))]_vars

\* C19 as claimed: after a failed refresh the user is unauthenticated: the
\* next makeSalesforceApiCall for the user fails as unauthenticated.
C19_FailedRefreshUnauthenticates ==
    [][(CallStart(1, OneUser) /\ ev = Outcome("refreshFailed", 0)) =>
          ev' = Outcome("unauthenticated", 0)]_vars

\* =====================================================================
\* Properties of the session sweep (SpecSweep)
\* =====================================================================

\* The entry of s is pending and passes its ten minutes before the clock reaches
\* the last deadline followed.
PendingWithinHorizon(s) ==
    /\ s \in DOMAIN sessionStore
    /\ sessionStore[s].timestamp + TenMinutes < MaxPeriods * SweepInterval

\* C20: with the timer firing and time passing, every pending authorization
\* is eventually absent from the session store, completed by a callback or not.
C20_PendingEventuallyDeleted ==
    \A s \in StateIds : PendingWithinHorizon(s) ~> (s \notin DOMAIN sessionStore)

\* C20 witness: the one state generated so far was never presented in a
\* callback, no request was answered since its /initiate, and its entry is gone:
\* the sweep deleted it.
C20_Witness ==
    /\ nextState = 1
    /\ ev = Response("initiate", 302, NoState, FALSE, FALSE)
    /\ consumed = {}
    /\ 1 \notin DOMAIN sessionStore
    /\ now > TenMinutes

\* =====================================================================
\* Frame and interleaving properties of the salesforceAuth router
\* (SpecSweep, SpecAuth)
\* =====================================================================

\* The age of the pending authorization of s.
Age(s) == now - sessionStore[s].timestamp

\* C21: a run of cleanupExpiredSessions deletes every entry older than ten
\* minutes, keeps every other entry as it is, adds none, and changes neither
\* token store nor any exchange in flight.
C21_SweepFrame ==
    [][CleanupExpiredSessions =>
         /\ \A s \in DOMAIN sessionStore :
               IF Age(s) > TenMinutes
               THEN s \notin DOMAIN sessionStore'
               ELSE s \in DOMAIN sessionStore' /\ sessionStore'[s] = sessionStore[s]
         /\ (DOMAIN sessionStore') \subseteq (DOMAIN sessionStore)
         /\ UNCHANGED <<tokenStore, redis, exchanges, consumed, ev>>]_vars

\* C21 witness: the sweep due at 900000 has run; the first state, never
\* presented in a callback, is gone and the second, generated five minutes
\* later or more, is still pending as /initiate stored it.
C21_Witness ==
    /\ now = 3 * SweepInterval
    /\ nextSweep > now
    /\ nextState = 2
    /\ consumed = {}
    /\ 1 \notin DOMAIN sessionStore
    /\ 2 \in DOMAIN sessionStore
    /\ now - sessionStore[2].timestamp <= TenMinutes

\* C22: under every interleaving of sweeps and callbacks, lookup and deletion
\* of a state are one step of the callback: a callback that finds the entry
\* takes its userId and removes it, and that state was never yielded before;
\* a callback that does not find it is answered 400 and changes nothing; a
\* sweep over states already consumed changes nothing about them.
C22_AtomicConsumption ==
    [][/\ \A s \in StateIds :
            CallbackWith(s) =>
              IF s \in DOMAIN sessionStore
              THEN /\ Accepted(s)
                   /\ s \notin consumed
                   /\ s \notin DOMAIN exchanges
                   /\ exchanges'[s] = sessionStore[s].userId
                   /\ consumed' = consumed \cup {s}
              ELSE Rejected(s)
       /\ CleanupExpiredSessions =>
              /\ \A s \in consumed : s \notin DOMAIN sessionStore'
              /\ UNCHANGED <<exchanges, consumed, tokenStore, ev>>]_vars

\* C22 witness: a state was consumed, sweeps up to the one due at 900000 have
\* run, and a further callback carrying the same state was answered 400.
C22_Witness ==
    /\ now = 3 * SweepInterval
    /\ nextSweep > now
    /\ 1 \in consumed
    /\ 1 \notin DOMAIN sessionStore
    /\ ev = Response("callback", 400, 1, FALSE, FALSE)

\* =====================================================================
\* Termination and failure properties of the salesforceLive router (SpecLive)
\* =====================================================================

\* The token request of refreshAccessToken failed: no answer, or a non-2xx one.
RefreshRejected(resp) == resp.kind = "error"

\* C23: an invocation of refreshAccessToken sends one request to the token
\* endpoint: the request goes out once, from the start of the refresh; when it
\* fails the refresh fails, the invocation is over and no further request is
\* in flight.
C23_OneRefreshRequest ==
    [][/\ calls'[1].pc = "refreshPost" =>
            \/ calls[1].pc = "refreshPost" /\ calls'[1] = calls[1]
            \/ calls[1].pc = "refreshGet" /\ calls[1].refreshes = 0
                 /\ calls'[1].refreshes = 1
       /\ \A resp \in RefreshResponses :
            (RefreshFinish(1, resp) /\ RefreshRejected(resp)) =>
               /\ calls[1].refreshes = 1
               /\ calls'[1].pc = "idle"
               /\ calls'[1].refreshes = 0
               /\ ev' = Outcome("refreshFailed", 0)]_vars

\* C23 witness: a refresh has just failed although the record stored for the
\* user carries a refresh token and Redis is ready: the token request failed.
C23_Witness ==
    /\ ev = Outcome("refreshFailed", 0)
    /\ calls[1].pc = "idle"
    /\ redisReady
    /\ DOMAIN redis = {OneUser}
    /\ Parse(redis[OneUser]).refreshToken = "R0"
    /\ Parse(redis[OneUser]).expiresAt < now + RefreshWindow

\* C24: every invocation of makeSalesforceApiCall sends at most two API
\* requests and starts at most two refreshes, whatever the provider answers
\* (401 to every request included), and every invocation under way ends.
C24_CallTerminates ==
    \A p \in Calls :
        /\ [](calls[p].requests <= 2 /\ calls[p].refreshes <= 2)
        /\ (calls[p].pc # "idle") ~> (calls[p].pc = "idle")

\* C24 witness: the API answered 401 and the invocation has ended with that
\* error while the other invocation is still refreshing.
C24_Witness ==
    /\ ev = Outcome("error", 401)
    /\ calls[1].pc = "idle"
    /\ calls[2].pc = "refreshPost"

\* =====================================================================
\* Properties of the calls to the provider (SpecProvider)
\* =====================================================================

\* C25 as claimed: every request to the provider ends by an answer or by its
\* timeout, so every callback awaiting the token endpoint is eventually
\* answered and every makeSalesforceApiCall invocation eventually ends.
C25_EveryRequestReturns ==
    /\ \A s \in StateIds : (s \in DOMAIN exchanges) ~> (s \notin DOMAIN exchanges)
    /\ (calls[1].pc # "idle") ~> (calls[1].pc = "idle")

\* =====================================================================
\* Disconnect beside a refresh in flight (SpecRevoke)
\* =====================================================================

\* C26 as claimed: when /disconnect has answered while a refresh of the user
\* was in flight and the store holds no record for the user, the refresh does
\* not put a record back when its token request is answered.
C26_DisconnectNotUndone ==
    [][\A resp \in RefreshResponses :
         (RefreshFinish(1, resp)
            /\ ev = Response("disconnect", 200, NoState, FALSE, FALSE)
            /\ OneUser \notin DOMAIN redis
            /\ OneUser \notin DOMAIN tokenStore) =>
               OneUser \notin DOMAIN redis']_vars

\* =====================================================================
\* Disconnect and the pending authorizations (SpecSweep)
\* =====================================================================

\* The pending authorizations and token records of every user but userId are
\* the same before and after the step.
OthersUnchanged(userId) ==
    /\ \A s \in DOMAIN sessionStore :
         sessionStore[s].userId # userId =>
           s \in DOMAIN sessionStore' /\ sessionStore'[s] = sessionStore[s]
    /\ \A v \in Users \ {userId} :
         /\ v \in DOMAIN tokenStore <=> v \in DOMAIN tokenStore'
         /\ v \in DOMAIN tokenStore => tokenStore'[v] = tokenStore[v]

\* C27: /disconnect of a user removes every pending authorization bound to
\* that user and leaves the pending authorizations and token records of the
\* other users as they were; a state that was issued and is gone from the
\* session store never comes back, and a callback carrying it is answered 400
\* without touching any store.
C27_DisconnectDropsPending ==
    [][/\ \A userId \in Users :
            Disconnect(userId) =>
              /\ \A s \in DOMAIN sessionStore :
                   sessionStore[s].userId = userId => s \notin DOMAIN sessionStore'
              /\ OthersUnchanged(userId)
       /\ \A s \in StateIds :
            (s <= nextState /\ s \notin DOMAIN sessionStore) =>
              /\ s \notin DOMAIN sessionStore'
              /\ CallbackWith(s) => Rejected(s)]_vars

\* C27 witness: within the first ten minutes, when no sweep has deleted
\* anything, a state that was issued and never consumed is gone from the store
\* and its callback was answered 400, while another user's pending
\* authorization is still in the store.
C27_Witness ==
    /\ now < TenMinutes
    /\ ev.op = "callback" /\ ev.status = 400
    /\ ev.state \in 1..nextState
    /\ ev.state \notin consumed
    /\ ev.state \notin DOMAIN sessionStore
    /\ sessionStore # Empty

\* =====================================================================
\* Callbacks refused before the state check (SpecRefuse)
\* =====================================================================

\* C28: a callback with an error parameter, or without code or state, is
\* answered 400 and leaves the session store, the token stores and the
\* exchanges as they were; and a well-formed callback whose state is in the
\* session store passes the state check, so a state sent with an error
\* parameter before can still be completed.
C28_RefusedCallbackKeepsState ==
    [][/\ \A code \in {Absent, "abc"}, state \in StateIds \cup {NoState},
             error \in {Absent, "access_denied"} :
            (Callback(code, state, error)
               /\ (error # Absent \/ code = Absent \/ state = NoState)) =>
              Rejected(state)
       /\ \A s \in DOMAIN sessionStore : CallbackWith(s) => Accepted(s)]_vars

\* C28 witness: a callback naming a state was answered 400 and that state is
\* still pending in the session store. States are issued in order, so the
\* entry was there when the callback arrived and the request was refused for
\* its error parameter or its missing code.
C28_Witness ==
    /\ ev.op = "callback" /\ ev.status = 400
    /\ ev.state \in DOMAIN sessionStore

\* =====================================================================
\* The state of a failed exchange (SpecProvider)
\* =====================================================================

\* C29: the callback deletes the pending authorization in the step that
\* starts the exchange; when the token endpoint then answers with a failure
\* or an unusable body, the state is already consumed and no record is
\* written; a consumed state never returns to the session store and a
\* repeated callback carrying it is answered 400.
C29_ConsumedBeforeExchange ==
    [][\A s \in StateIds :
         /\ (CallbackWith(s) /\ s \in DOMAIN sessionStore) =>
              /\ s \notin DOMAIN sessionStore'
              /\ s \in DOMAIN exchanges'
              /\ s \in consumed'
         /\ \A resp \in ExchangeResponses :
              (ExchangeFinish(s, resp) /\ ~ValidTokenResponse(resp)) =>
                /\ s \in consumed
                /\ s \notin DOMAIN sessionStore'
                /\ tokenStore' = tokenStore
         /\ s \in consumed =>
              /\ s \notin DOMAIN sessionStore'
              /\ CallbackWith(s) => Rejected(s)]_vars

\* C29 witness: no exchange has ever stored a record, the exchange of a
\* consumed state is over, so it failed, and the callback repeated with that
\* state was answered 400.
C29_Witness ==
    /\ ev.op = "callback" /\ ev.status = 400
    /\ ev.state \in consumed
    /\ ev.state \notin DOMAIN exchanges
    /\ tokenStore = Empty

\* =====================================================================
\* The request after a proactive refresh (SpecLive)
\* =====================================================================

\* The invocation has ended with 'Unable to refresh token.' and has no request
\* in flight.
EndedUnableToRefresh ==
    /\ calls'[1] = IdleCall
    /\ ev' = Outcome("refreshFailed", 0)

\* C30: while makeSalesforceApiCall refreshes, it has sent no API request;
\* when the refresh fails, for want of a refresh token or by the provider's
\* answer, the invocation ends with an error and no API request goes out; the
\* only request that follows a refresh carries the token that refresh
\* returned.
C30_NoRequestAfterFailedRefresh ==
    [][/\ calls'[1].pc \in {"refreshGet", "refreshPost"} =>
            calls'[1].requests = 0 /\ calls'[1].request = {}
       /\ (RefreshGet(1) /\ ~HasRefreshToken(RecordToRefresh)) => EndedUnableToRefresh
       /\ \A resp \in RefreshResponses :
            (RefreshFinish(1, resp) /\ RefreshRejected(resp)) => EndedUnableToRefresh
       /\ (calls[1].pc \in {"refreshGet", "refreshPost"} /\ calls'[1].pc = "api") =>
            \E resp \in RefreshResponses :
               /\ resp.kind = "ok"
               /\ RefreshFinish(1, resp)
               /\ calls'[1].request = {ApiRequest(UpdatedToken(ReadRecord, resp, now))}]_vars

\* C30 witness: a proactive refresh has failed and the invocation is over with
\* no request sent, while the store is up and holds one record, with a refresh
\* token and the access token it had before the refresh.
C30_Witness ==
    /\ ev = Outcome("refreshFailed", 0)
    /\ calls[1] = IdleCall
    /\ redisReady
    /\ \E u \in Users :
         /\ DOMAIN redis = {u}
         /\ Parse(redis[u]).refreshToken # Absent
         /\ Parse(redis[u]).accessToken = "A0"

====
